---- MODULE Spec2Model ----
(***************************************************************************)
(* The CSV comparison tool of src/src/App.tsx (and its earlier single-     *)
(* provider version, src/unnamed/part_000): CSV normalisation, fence       *)
(* stripping of the model's reply, prompt building, and the session state  *)
(* machine around one completion request.                                  *)
(*                                                                         *)
(* A text is a sequence of one-character strings.  A cell is a text, a row *)
(* a sequence of cells, a table a pair <<headers, rows>>.                  *)
(***************************************************************************)
EXTENDS Integers, Sequences, FiniteSets, TLC

VARIABLES
    headers1, file1Data,          \* useState: first table
    headers2, file2Data,          \* useState: second table
    processedHeaders, processedData, \* useState: result table
    isProcessing,                 \* useState: processing flag
    apiKey,                       \* useState: credential
    error,                        \* useState: user-visible message
    processedResult,              \* useState: string | null, Null or Some(text)
    selectedProvider, selectedModel,
    reading,                      \* FileReader reads started and not yet loaded
    inflight,                     \* completion requests awaiting their reply
    fileLoaded,                   \* history: reader.onload has run for file n
    pc, text, out                 \* the pure-function harness: input and result

appVars == <<headers1, file1Data, headers2, file2Data, processedHeaders,
             processedData, isProcessing, apiKey, error, processedResult,
             selectedProvider, selectedModel, reading, inflight, fileLoaded>>
pureVars == <<pc, text, out>>
vars == <<appVars, pureVars>>

(***************************************************************************)
(* Bounds of the model.                                                    *)
(***************************************************************************)
MaxTextLen == 6
MaxContentLen == 2
MaxInFlight == 2
MaxReading == 1
MaxPromptCols == 2
MaxPromptRows == 1

(***************************************************************************)
(* JavaScript string and array primitives, as the code uses them.          *)
(***************************************************************************)
\* the characters String.prototype.trim and the regex class \s remove
WhiteSpace == {" ", "\t", "\r", "\n"}

Min(S) == CHOOSE m \in S : \A n \in S : m <= n
Max(S) == CHOOSE m \in S : \A n \in S : m >= n

\* Array.prototype.slice(k): the elements from 0-based index k on
slice(row, k) == SubSeq(row, k + 1, Len(row))

\* String.prototype.split(sep) with a one-character separator: always at
\* least one piece, "" splits into [""]
RECURSIVE split(_, _)
split(s, sep) ==
    IF \A i \in 1..Len(s) : s[i] # sep
    THEN <<s>>
    ELSE LET i == Min({j \in 1..Len(s) : s[j] = sep})
         IN  <<SubSeq(s, 1, i - 1)>> \o split(SubSeq(s, i + 1, Len(s)), sep)

\* Array.prototype.join(sep): "" for the empty array, no separator around a
\* single element
RECURSIVE join(_, _)
join(parts, sep) ==
    IF Len(parts) = 0 THEN <<>>
    ELSE IF Len(parts) = 1 THEN parts[1]
    ELSE parts[1] \o sep \o join(Tail(parts), sep)

trimStart(s) ==
    LET keep == {i \in 1..Len(s) : s[i] \notin WhiteSpace}
    IN  IF keep = {} THEN <<>> ELSE SubSeq(s, Min(keep), Len(s))

trimEnd(s) ==
    LET keep == {i \in 1..Len(s) : s[i] \notin WhiteSpace}
    IN  IF keep = {} THEN <<>> ELSE SubSeq(s, 1, Max(keep))

\* String.prototype.trim
trim(s) == trimEnd(trimStart(s))

\* cell.replace(/^"|"$/g, ''): one quote at the start, and one quote at the end
\* of what is left
stripQuotes(s) ==
    LET t == IF Len(s) > 0 /\ s[1] = "\"" THEN Tail(s) ELSE s
    IN  IF Len(t) > 0 /\ t[Len(t)] = "\"" THEN SubSeq(t, 1, Len(t) - 1) ELSE t

cleanCell(cell) == stripQuotes(trim(cell))

MapSeq(f(_), s) == [i \in 1..Len(s) |-> f(s[i])]

(***************************************************************************)
(* processCSV                                                              *)
(***************************************************************************)
\* a split that returns no piece for the empty text
splitLines_noPieceForEmpty(csvText) ==
    IF csvText = <<>> THEN <<>> ELSE split(csvText, "\n")

splitLines(csvText) == split(csvText, "\n")

splitCells(line) == split(line, ",")

\* const lines = csvText.split('\n').map(line => line.split(',').map(cell => ...))
parseLines(csvText) ==
    LET parseLine(line) == MapSeq(cleanCell, splitCells(line))
    IN  MapSeq(parseLine, splitLines(csvText))

\* row[i] !== '' for a 0-based i; a read past the end of the row is undefined,
\* which differs from ''
cellNotBlank(row, i) == IF i < Len(row) THEN row[i + 1] # <<>> ELSE TRUE

\* the while loop of removeLeadingBlankColumns, from firstNonBlankColIndex = idx
RECURSIVE firstNonBlankColIndex(_, _)
firstNonBlankColIndex(data, idx) ==
    IF idx < Len(data[1])
    THEN IF \E r \in 1..Len(data) : cellNotBlank(data[r], idx)
         THEN idx
         ELSE firstNonBlankColIndex(data, idx + 1)
    ELSE idx

\* a slice that starts one column late
removeLeadingBlankColumns_offByOne(data) ==
    IF Len(data) = 0 THEN data
    ELSE LET k == firstNonBlankColIndex(data, 0)
         IN  [r \in 1..Len(data) |-> slice(data[r], k + 1)]

removeLeadingBlankColumns(data) ==
    IF Len(data) = 0 THEN data
    ELSE LET k == firstNonBlankColIndex(data, 0)
         IN  [r \in 1..Len(data) |-> slice(data[r], k)]

\* line.some(cell => cell)
someCell(line) == \E i \in 1..Len(line) : line[i] # <<>>

\* a filter that looks at the first cell only
keptRows_firstCell(lines) ==
    LET firstCell(line) == Len(line) > 0 /\ line[1] # <<>>
    IN  SelectSeq(Tail(lines), firstCell)

\* lines.slice(1).filter(line => line.some(cell => cell))
keptRows(lines) == SelectSeq(Tail(lines), someCell)

\* lines[0] is undefined when there is no line; reading data[0].length in
\* removeLeadingBlankColumns then throws a TypeError
processCSVThrows(csvText) == Len(parseLines(csvText)) = 0

processCSV(csvText) ==
    LET lines == parseLines(csvText)
        headers == lines[1]
        data == keptRows(lines)
        cleanedData == removeLeadingBlankColumns(<<headers>> \o data)
    IN  <<cleanedData[1], Tail(cleanedData)>>

\* [headers, ...data].map(row => row.join(',')).join('\n')
toCSV(headers, data) ==
    LET joinRow(row) == join(row, <<",">>)
    IN  join(MapSeq(joinRow, <<headers>> \o data), <<"\n">>)

(***************************************************************************)
(* The fence stripping of the reply: result.replace(/^FENCEcsv\s*|\s*FENCE$/g, *)
(* '') where FENCE is three backticks.  The first alternative matches only *)
(* at the start of the text, the second only at its end; the scan for the  *)
(* second starts after the first match.                                    *)
(***************************************************************************)
\* the backtick character, written as a token of its own
Backtick == "BACKTICK"

Fence == <<Backtick, Backtick, Backtick>>
CsvFence == Fence \o <<"c", "s", "v">>

startsWith(s, prefix) ==
    Len(s) >= Len(prefix) /\ SubSeq(s, 1, Len(prefix)) = prefix

endsWith(s, suffix) ==
    Len(s) >= Len(suffix) /\ SubSeq(s, Len(s) - Len(suffix) + 1, Len(s)) = suffix

\* the first alternative: the csv fence at the start, and the whitespace after it
stripOpening(s) ==
    IF startsWith(s, CsvFence) THEN trimStart(slice(s, Len(CsvFence))) ELSE s

\* a closing alternative without its \s*
stripClosing_keepsWhitespace(s) ==
    IF endsWith(s, Fence) THEN SubSeq(s, 1, Len(s) - Len(Fence)) ELSE s

\* the second alternative: the fence at the end, and the whitespace before it
stripClosing(s) ==
    IF endsWith(s, Fence) THEN trimEnd(SubSeq(s, 1, Len(s) - Len(Fence))) ELSE s

stripFence(result) == stripClosing(stripOpening(result))

(***************************************************************************)
(* getPrompt                                                               *)
(***************************************************************************)
\* a serialization that joins the cells with a comma alone
formatData_commaOnly(headers, data) ==
    LET joinRow(row) == join(row, <<",">>)
    IN  join(<<joinRow(headers)>> \o MapSeq(joinRow, data), <<"\n">>)

\* [headers.join(', '), ...data.map(row => row.join(', '))].join('\n')
formatData(headers, data) ==
    LET joinRow(row) == join(row, <<",", " ">>)
    IN  join(<<joinRow(headers)>> \o MapSeq(joinRow, data), <<"\n">>)

\* the fixed wording of the template, each piece one element of the text
PromptIntro ==
    <<"I want to compare these two spreadsheets side-by-side. \n  First collapse each spreadsheet into one column.\n  Make an index from the row and cell data from First spreadsheet.\n  Use the index to match rows and cells in Second spreadsheet.\n  If there is no matching pair, use an empty cell.\n  Double-check each row carefully. \n  Show the result as a **well-formed CSV** with exactly two columns. \n  Do not provide any commentary.\n\n  First spreadsheet:\n  ">>

PromptMiddle == <<"\n\n  Second spreadsheet:\n  ">>

getPrompt(h1, data1, h2, data2) ==
    LET csv1 == formatData(h1, data1)
        csv2 == formatData(h2, data2)
    IN  PromptIntro \o csv1 \o PromptMiddle \o csv2

(***************************************************************************)
(* Configuration and the values the environment supplies.                  *)
(***************************************************************************)
Providers == {"openai", "deepseek", "gemini", "claude"}

modelOptions ==
    [p \in Providers |->
        CASE p = "gemini" -> <<"gemini-2.0-flash", "gemini-1.5-pro", "gemini-pro">>
          [] p = "openai" -> <<"gpt-3.5-turbo", "gpt-4", "gpt-4-turbo-preview",
                               "gpt-4o", "gpt-4o-mini", "o1-mini", "o3-mini">>
          [] p = "deepseek" -> <<"deepseek-chat", "deepseek-coder">>
          [] p = "claude" -> <<"claude-3-opus-20240229", "claude-3-sonnet-20240229",
                               "claude-2.1">>]

\* selectedProvider.toUpperCase()
toUpperCase(p) ==
    CASE p = "gemini" -> "GEMINI"
      [] p = "openai" -> "OPENAI"
      [] p = "deepseek" -> "DEEPSEEK"
      [] p = "claude" -> "CLAUDE"

\* string | null
Null == <<>>
Some(t) == <<t>>

\* messages are texts made of whole pieces; '' is the empty text
NoError == <<>>
MissingCredential(p) == <<"Please enter your ", toUpperCase(p), " API key first">>
MissingInput == <<"Please upload both CSV files first">>
InvalidProvider == <<"Invalid provider selected">>
GenericFailure == <<"An error occurred while processing the files">>

\* the credential: import.meta.env.VITE_GEMINI_API_KEY || '', or typed in
ApiKeys == {"", "key"}

\* contents of the files the user picks: a zero-byte file, a table with one
\* row, a header line alone, and a table behind a blank leading column
FileTexts ==
    { <<>>,
      <<"a", "\n", "1">>,
      <<"a", ",", "b">>,
      <<",", "x", "\n", ",", "2">> }

\* replies of the completion service: no text, a fenced table, a bare table,
\* and a fence alone
Replies ==
    { <<>>,
      CsvFence \o <<"\n", "a", ",", "b", "\n", "1", ",", "2", "\n">> \o Fence,
      <<"x", "\n", "y">>,
      Fence }

\* what a failed completion throws: an Error with a message, or another value
Failures == { [isError |-> TRUE, message |-> <<"Failed to fetch">>],
              [isError |-> FALSE, message |-> <<>>] }

(***************************************************************************)
(* The state after construction (the useState initial values).             *)
(***************************************************************************)
AppInit ==
    /\ headers1 = <<>> /\ file1Data = <<>>
    /\ headers2 = <<>> /\ file2Data = <<>>
    /\ processedHeaders = <<>> /\ processedData = <<>>
    /\ isProcessing = FALSE
    /\ apiKey \in ApiKeys
    /\ error = NoError
    /\ processedResult = Null
    /\ selectedProvider = "gemini"
    /\ selectedModel = modelOptions["gemini"][2]
    /\ reading = {}
    /\ inflight = <<>>
    /\ fileLoaded = [n \in 1..2 |-> FALSE]

(***************************************************************************)
(* processCSV on every text up to MaxTextLen characters.                   *)
(***************************************************************************)
CsvChars == {"a", ",", "\n", " ", "\""}

TextsOver(chars, n) == UNION {[1..k -> chars] : k \in 0..n}

CsvTexts == TextsOver(CsvChars, MaxTextLen)

InitCSV ==
    /\ AppInit /\ apiKey = ""
    /\ pc = "csv" /\ text \in CsvTexts /\ out = <<>>

Normalize ==
    /\ pc = "csv"
    /\ IF processCSVThrows(text)
       THEN pc' = "csvThrew" /\ out' = out
       ELSE pc' = "csvDone" /\ out' = processCSV(text)
    /\ UNCHANGED <<text, appVars>>

NextCSV == Normalize

SpecCSV == InitCSV /\ [][NextCSV]_vars

(***************************************************************************)
(* stripFence on fenced and unfenced replies.                              *)
(***************************************************************************)
ContentChars == {"a", ",", "\n", " "}

Contents == TextsOver(ContentChars, MaxContentLen)

FenceTexts ==
    { lead \o open \o nl \o c \o close \o trail :
        lead \in {<<>>, <<" ">>, <<"\n">>},
        open \in {CsvFence, Fence, <<>>},
        nl \in {<<>>, <<"\n">>},
        c \in Contents,
        close \in {Fence, <<>>},
        trail \in {<<>>, <<" ">>, <<"\n">>} }

InitFence ==
    /\ AppInit /\ apiKey = ""
    /\ pc = "fence" /\ text \in FenceTexts /\ out = <<>>

StripFence ==
    /\ pc = "fence"
    /\ pc' = "fenceDone"
    /\ out' = stripFence(text)
    /\ UNCHANGED <<text, appVars>>

NextFence == StripFence

SpecFence == InitFence /\ [][NextFence]_vars

(***************************************************************************)
(* getPrompt on pairs of tables.                                           *)
(***************************************************************************)
PromptCells == {<<>>, <<"a", " ", "b">>}

PromptRows == UNION {[1..k -> PromptCells] : k \in 0..MaxPromptCols}

PromptTables ==
    {<<h, d>> : h \in PromptRows,
                d \in UNION {[1..k -> PromptRows] : k \in 0..MaxPromptRows}}

\* the other argument pair: an empty table, and a header with one row
FewTables == { <<<<>>, <<>>>>, <<<<<<"x">>>>, <<<<<<"y">>>>>>>> }

InitPrompt ==
    /\ AppInit /\ apiKey = ""
    /\ pc = "prompt" /\ out = <<>>
    /\ \E t \in PromptTables, u \in FewTables :
          \/ text = <<t[1], t[2], u[1], u[2]>>
          \/ text = <<u[1], u[2], t[1], t[2]>>

BuildPrompt ==
    /\ pc = "prompt"
    /\ pc' = "promptDone"
    /\ out' = getPrompt(text[1], text[2], text[3], text[4])
    /\ UNCHANGED <<text, appVars>>

NextPrompt == BuildPrompt

SpecPrompt == InitPrompt /\ [][NextPrompt]_vars

(***************************************************************************)
(* The session: file loads, settings, the process action and the replies.  *)
(* An event handler runs to completion, and React applies the state        *)
(* updates of one handler together, so each handler (and each continuation *)
(* after an await) is one step.                                            *)
(***************************************************************************)
tableVars == <<headers1, file1Data, headers2, file2Data>>
resultVars == <<processedHeaders, processedData>>
settingVars == <<apiKey, selectedProvider, selectedModel>>

RemoveAt(s, i) == SubSeq(s, 1, i - 1) \o SubSeq(s, i + 1, Len(s))

\* handleFileUpload up to reader.readAsText(file): a read of file n, whose
\* content is t, is started
handleFileUpload(n, t) ==
    /\ pc = "app"
    /\ Cardinality(reading) < MaxReading
    /\ reading' = reading \cup {[fileNumber |-> n, text |-> t]}
    /\ UNCHANGED <<tableVars, resultVars, settingVars, isProcessing, error,
                   processedResult, inflight, fileLoaded, pureVars>>

\* an onload that stores the parse in both tables, whatever the file number
onload_bothTables(r) ==
    /\ pc = "app"
    /\ r \in reading
    /\ reading' = reading \ {r}
    /\ LET parsed == processCSV(r.text)
       IN  /\ headers1' = parsed[1]
           /\ file1Data' = parsed[2]
           /\ headers2' = parsed[1]
           /\ file2Data' = parsed[2]
           /\ fileLoaded' = [fileLoaded EXCEPT ![r.fileNumber] = TRUE]
    /\ UNCHANGED <<resultVars, settingVars, isProcessing, error,
                   processedResult, inflight, pureVars>>

\* reader.onload of a read that was started
onload(r) ==
    /\ pc = "app"
    /\ r \in reading
    /\ reading' = reading \ {r}
    /\ IF processCSVThrows(r.text)
       THEN UNCHANGED <<tableVars, fileLoaded>>
       ELSE LET parsed == processCSV(r.text)
            IN  /\ IF r.fileNumber = 1
                   THEN /\ headers1' = parsed[1]
                        /\ file1Data' = parsed[2]
                        /\ UNCHANGED <<headers2, file2Data>>
                   ELSE /\ headers2' = parsed[1]
                        /\ file2Data' = parsed[2]
                        /\ UNCHANGED <<headers1, file1Data>>
                /\ fileLoaded' = [fileLoaded EXCEPT ![r.fileNumber] = TRUE]
    /\ UNCHANGED <<resultVars, settingVars, isProcessing, error,
                   processedResult, inflight, pureVars>>

\* onChange of the credential input
setApiKey(k) ==
    /\ pc = "app"
    /\ apiKey' = k
    /\ UNCHANGED <<tableVars, resultVars, selectedProvider, selectedModel,
                   isProcessing, error, processedResult, reading, inflight,
                   fileLoaded, pureVars>>

\* a provider change that leaves the model as it was
handleProviderChange_keepsModel(newProvider) ==
    /\ pc = "app"
    /\ selectedProvider' = newProvider
    /\ UNCHANGED <<tableVars, resultVars, apiKey, selectedModel, isProcessing,
                   error, processedResult, reading, inflight, fileLoaded,
                   pureVars>>

handleProviderChange(newProvider) ==
    /\ pc = "app"
    /\ selectedProvider' = newProvider
    /\ selectedModel' = modelOptions[newProvider][1]
    /\ UNCHANGED <<tableVars, resultVars, apiKey, isProcessing, error,
                   processedResult, reading, inflight, fileLoaded, pureVars>>

\* onChange of the model select, whose options are those of the provider
setSelectedModel(m) ==
    /\ pc = "app"
    /\ selectedModel' = m
    /\ UNCHANGED <<tableVars, resultVars, apiKey, selectedProvider,
                   isProcessing, error, processedResult, reading, inflight,
                   fileLoaded, pureVars>>

\* the request the provider's client sends
Request ==
    [prompt |-> getPrompt(headers1, file1Data, headers2, file2Data),
     provider |-> selectedProvider,
     model |-> selectedModel,
     credential |-> apiKey]

\* processWithAI with the input check ahead of the credential check
processWithAI_inputCheckFirst ==
    /\ pc = "app"
    /\ IF Len(file1Data) = 0 \/ Len(file2Data) = 0
       THEN /\ error' = MissingInput
            /\ UNCHANGED <<isProcessing, processedResult, inflight>>
       ELSE IF apiKey = ""
       THEN /\ error' = MissingCredential(selectedProvider)
            /\ UNCHANGED <<isProcessing, processedResult, inflight>>
       ELSE /\ Len(inflight) < MaxInFlight
            /\ isProcessing' = TRUE
            /\ error' = NoError
            /\ processedResult' = Null
            /\ inflight' = Append(inflight, Request)
    /\ UNCHANGED <<tableVars, resultVars, settingVars, reading, fileLoaded,
                   pureVars>>

\* processWithAI up to the await of the provider's call
processWithAI ==
    /\ pc = "app"
    /\ IF apiKey = ""
       THEN /\ error' = MissingCredential(selectedProvider)
            /\ UNCHANGED <<isProcessing, processedResult, inflight>>
       ELSE IF Len(file1Data) = 0 \/ Len(file2Data) = 0
       THEN /\ error' = MissingInput
            /\ UNCHANGED <<isProcessing, processedResult, inflight>>
       ELSE IF selectedProvider \notin Providers
       THEN \* default: throw, caught at once, then finally
            /\ error' = InvalidProvider
            /\ isProcessing' = FALSE
            /\ processedResult' = Null
            /\ UNCHANGED inflight
       ELSE /\ Len(inflight) < MaxInFlight
            /\ isProcessing' = TRUE
            /\ error' = NoError
            /\ processedResult' = Null
            /\ inflight' = Append(inflight, Request)
    /\ UNCHANGED <<tableVars, resultVars, settingVars, reading, fileLoaded,
                   pureVars>>

\* a continuation that parses the reply as received, fence included
receiveText_parsesRawReply(i, reply) ==
    /\ pc = "app"
    /\ i \in 1..Len(inflight)
    /\ inflight' = RemoveAt(inflight, i)
    /\ IF reply # <<>>
       THEN /\ processedResult' = Some(stripFence(reply))
            /\ processedHeaders' = processCSV(reply)[1]
            /\ processedData' = processCSV(reply)[2]
            /\ UNCHANGED error
       ELSE UNCHANGED <<processedResult, resultVars, error>>
    /\ isProcessing' = FALSE
    /\ UNCHANGED <<tableVars, settingVars, reading, fileLoaded, pureVars>>

\* the continuation without its if (result) test
receiveText_noEmptyTest(i, reply) ==
    /\ pc = "app"
    /\ i \in 1..Len(inflight)
    /\ inflight' = RemoveAt(inflight, i)
    /\ LET result == stripFence(reply)
       IN  /\ processedResult' = Some(result)
           /\ processedHeaders' = processCSV(result)[1]
           /\ processedData' = processCSV(result)[2]
           /\ UNCHANGED error
    /\ isProcessing' = FALSE
    /\ UNCHANGED <<tableVars, settingVars, reading, fileLoaded, pureVars>>

\* processWithAI after the await, the call having returned the text reply
receiveText(i, reply) ==
    /\ pc = "app"
    /\ i \in 1..Len(inflight)
    /\ inflight' = RemoveAt(inflight, i)
    /\ IF reply # <<>>
       THEN LET result == stripFence(reply)
            IN  /\ processedResult' = Some(result)
                /\ IF processCSVThrows(result)
                   THEN /\ error' = <<"TypeError">>
                        /\ UNCHANGED resultVars
                   ELSE /\ processedHeaders' = processCSV(result)[1]
                        /\ processedData' = processCSV(result)[2]
                        /\ UNCHANGED error
       ELSE UNCHANGED <<processedResult, resultVars, error>>
    /\ isProcessing' = FALSE
    /\ UNCHANGED <<tableVars, settingVars, reading, fileLoaded, pureVars>>

\* a failure path without the finally block
receiveFailure_noFinally(i, e) ==
    /\ pc = "app"
    /\ i \in 1..Len(inflight)
    /\ inflight' = RemoveAt(inflight, i)
    /\ error' = IF e.isError THEN e.message ELSE GenericFailure
    /\ UNCHANGED <<tableVars, resultVars, settingVars, processedResult,
                   isProcessing, reading, fileLoaded, pureVars>>

\* a catch that sends the request again
receiveFailure_retries(i, e) ==
    /\ pc = "app"
    /\ i \in 1..Len(inflight)
    /\ inflight' = Append(RemoveAt(inflight, i), inflight[i])
    /\ error' = IF e.isError THEN e.message ELSE GenericFailure
    /\ UNCHANGED <<tableVars, resultVars, settingVars, processedResult,
                   isProcessing, reading, fileLoaded, pureVars>>

\* processWithAI after the await, the call having thrown e
receiveFailure(i, e) ==
    /\ pc = "app"
    /\ i \in 1..Len(inflight)
    /\ inflight' = RemoveAt(inflight, i)
    /\ error' = IF e.isError THEN e.message ELSE GenericFailure
    /\ isProcessing' = FALSE
    /\ UNCHANGED <<tableVars, resultVars, settingVars, processedResult,
                   reading, fileLoaded, pureVars>>

\* the disabled attribute of the process button without the processing flag
processDisabled_noFlag ==
    Len(file1Data) = 0 \/ Len(file2Data) = 0 \/ apiKey = ""

\* the disabled attribute of the process button
processDisabled ==
    isProcessing \/ Len(file1Data) = 0 \/ Len(file2Data) = 0 \/ apiKey = ""

\* the file inputs, the selects and the credential input: disabled={isProcessing}
inputDisabled == isProcessing

SelectFile == \E n \in 1..2, t \in FileTexts : ~inputDisabled /\ handleFileUpload(n, t)

FileLoaded == \E r \in reading : onload(r)

TypeApiKey == \E k \in ApiKeys : ~inputDisabled /\ setApiKey(k)

ChangeProvider == \E p \in Providers : ~inputDisabled /\ handleProviderChange(p)

ChangeModel ==
    \E j \in 1..Len(modelOptions[selectedProvider]) :
        ~inputDisabled /\ setSelectedModel(modelOptions[selectedProvider][j])

ClickProcess == ~processDisabled /\ processWithAI

CompletionReturns == \E i \in 1..Len(inflight), reply \in Replies : receiveText(i, reply)

CompletionFails == \E i \in 1..Len(inflight), e \in Failures : receiveFailure(i, e)

Init == AppInit /\ pc = "app" /\ text = <<>> /\ out = <<>>

Next ==
    \/ SelectFile
    \/ FileLoaded
    \/ TypeApiKey
    \/ ChangeProvider
    \/ ChangeModel
    \/ ClickProcess
    \/ CompletionReturns
    \/ CompletionFails

\* the session as the page lets the user drive it
Spec == Init /\ [][Next]_vars

\* the process handler triggered without the button's checks of the inputs
\* and the credential, which the handler makes itself; the processing flag
\* still gates the trigger
InvokeProcess == ~isProcessing /\ processWithAI

NextHandler == Next \/ InvokeProcess

SpecHandler == Init /\ [][NextHandler]_vars

(***************************************************************************)
(* Properties of processCSV (SpecCSV).                                     *)
(***************************************************************************)
IsBlankRow(row) == \A i \in 1..Len(row) : row[i] = <<>>

\* the header line and the candidate rows that are not blank, before any
\* column is removed
GridOf(x) ==
    LET lines == parseLines(x)
        notBlank(row) == ~IsBlankRow(row)
    IN  <<lines[1]>> \o SelectSeq(Tail(lines), notBlank)

\* the first 0-based column at which some row of the grid has a non-empty
\* cell, the column count when there is none
FirstNonEmptyColumn(grid) ==
    LET width == Max({Len(grid[r]) : r \in 1..Len(grid)})
        cols == {c \in 0..(width - 1) :
                    \E r \in 1..Len(grid) : c < Len(grid[r]) /\ grid[r][c + 1] # <<>>}
    IN  IF cols = {} THEN width ELSE Min(cols)

TableOf(grid, k) ==
    <<slice(grid[1], k), [r \in 1..(Len(grid) - 1) |-> slice(grid[r + 1], k)]>>

\* C1: normalize removes exactly the columns [0, k), k the first column at
\* which the header or some kept row has a non-empty cell, also for ragged
\* input whose header line is shorter than a data row; so column 0 of a
\* non-empty result holds a non-empty cell.
C1_RemovesExactlyLeadingBlankColumns ==
    pc = "csvDone" =>
        LET grid == GridOf(text)
            all == <<out[1]>> \o out[2]
        IN  /\ out = TableOf(grid, FirstNonEmptyColumn(grid))
            /\ (\E r \in 1..Len(all) : Len(all[r]) > 0)
                 => \E r \in 1..Len(all) : Len(all[r]) > 0 /\ all[r][1] # <<>>

\* C2: every candidate row whose cells are all empty is dropped, the others
\* are kept in their order, the header line is kept, and no returned row is
\* all empty strings after the leading columns were removed.
C2_DropsBlankRowsOnly ==
    pc = "csvDone" =>
        LET grid == GridOf(text)
        IN  /\ Len(out[2]) = Len(grid) - 1
            /\ \E k \in 0..(MaxTextLen + 1) : out = TableOf(grid, k)
            /\ \A r \in 1..Len(out[2]) :
                  \E i \in 1..Len(out[2][r]) : out[2][r][i] # <<>>

\* a text with a blank candidate row between two kept rows has been parsed
C2_Witness ==
    /\ pc = "csvDone"
    /\ Len(parseLines(text)) = 4
    /\ IsBlankRow(parseLines(text)[3])
    /\ Len(out[2]) = 2

\* column 0 of the header or of a kept row is not blank
NoBlankLeadingColumn(x) ==
    LET grid == GridOf(x)
    IN  \E r \in 1..Len(grid) : Len(grid[r]) > 0 /\ grid[r][1] # <<>>

Reparsed(table) == processCSV(toCSV(table[1], table[2]))

\* C3 as stated: for every text with no blank leading column,
\* normalize(serialize(normalize(x))) = normalize(x), whatever its cells keep.
C3_IdempotentAsStated ==
    (pc = "csvDone" /\ NoBlankLeadingColumn(text)) => Reparsed(out) = out

\* a cell the second pass leaves alone: neither whitespace nor a double quote
\* at either end
SettledCell(cell) ==
    Len(cell) > 0 =>
        /\ cell[1] \notin WhiteSpace \cup {"\""}
        /\ cell[Len(cell)] \notin WhiteSpace \cup {"\""}

SettledTable(table) ==
    /\ \A i \in 1..Len(table[1]) : SettledCell(table[1][i])
    /\ \A r \in 1..Len(table[2]) :
          \A i \in 1..Len(table[2][r]) : SettledCell(table[2][r][i])

\* C3: for every text with no blank leading column whose normalized cells
\* neither begin nor end with whitespace or a double quote,
\* normalize(serialize(normalize(x))) = normalize(x).
C3_IdempotentOnSettledCells ==
    (pc = "csvDone" /\ NoBlankLeadingColumn(text) /\ SettledTable(out))
        => Reparsed(out) = out

\* a table with a header, a dropped blank row and a kept row went round
C3_Witness ==
    /\ pc = "csvDone"
    /\ NoBlankLeadingColumn(text)
    /\ SettledTable(out)
    /\ Len(parseLines(text)) = 3
    /\ Len(out[2]) = 1
    /\ Len(out[1]) = 2
    /\ Reparsed(out) = out

\* C6: processCSV raises no error on any text; the empty text gives empty
\* headers and no rows, a one-line text gives its headers and no rows, and a
\* text whose every cell is blank gives empty headers and no rows.
C6_TotalWithEdgeCases ==
    /\ pc # "csvThrew"
    /\ pc = "csvDone" =>
          LET lines == parseLines(text)
          IN  /\ text = <<>> => out = <<<<>>, <<>>>>
              /\ Len(lines) = 1 =>
                    /\ out[2] = <<>>
                    /\ \E k \in 0..Len(lines[1]) :
                          /\ out[1] = slice(lines[1], k)
                          /\ \A i \in 1..k : lines[1][i] = <<>>
                          /\ k < Len(lines[1]) => lines[1][k + 1] # <<>>
              /\ (\A r \in 1..Len(lines) : IsBlankRow(lines[r]))
                    => out = <<<<>>, <<>>>>

\* the empty text has been parsed
C6_Witness == pc = "csvDone" /\ text = <<>> /\ out = <<<<>>, <<>>>>

(***************************************************************************)
(* Properties of stripFence (SpecFence).                                   *)
(***************************************************************************)
IsWhiteSpace(s) == \A i \in 1..Len(s) : s[i] \in WhiteSpace

\* C4: an opening fence, tagged or not, and the closing fence are removed,
\* also when whitespace precedes the opening fence or follows the closing one.
C4_RemovesBothFences ==
    pc = "fenceDone" =>
        \A lead, trail \in {<<>>, <<" ">>, <<"\n">>} :
            \A open \in {CsvFence, Fence} :
                \A c \in Contents :
                    text = lead \o open \o <<"\n">> \o c \o Fence \o trail
                        => \A i \in 1..Len(out) : out[i] # Backtick

\* C5 as stated: the csv fence line, then fence-free content c, then the
\* closing fence gives back c unchanged, the newline that ends c included.
C5_ContentUnchanged ==
    pc = "fenceDone" =>
        \A c \in Contents :
            text = CsvFence \o <<"\n">> \o c \o Fence => out = c

\* C5: the csv fence line, then fence-free content c, then the closing fence
\* gives back c without the whitespace at its two ends (the newline that ends
\* c goes with the closing fence); no other character of c is removed.
C5_ContentTrimmed ==
    pc = "fenceDone" =>
        \A c \in Contents :
            text = CsvFence \o <<"\n">> \o c \o Fence =>
                /\ \E i, j \in 0..Len(c) :
                      /\ i + Len(out) + j = Len(c)
                      /\ out = SubSeq(c, i + 1, i + Len(out))
                      /\ IsWhiteSpace(SubSeq(c, 1, i))
                      /\ IsWhiteSpace(SubSeq(c, Len(c) - j + 1, Len(c)))
                /\ Len(out) > 0 =>
                      out[1] \notin WhiteSpace /\ out[Len(out)] \notin WhiteSpace

\* content that ends with a newline came back without it
C5_Witness ==
    /\ pc = "fenceDone"
    /\ text = CsvFence \o <<"\n", "a", "\n">> \o Fence
    /\ out = <<"a">>

(***************************************************************************)
(* Properties of the session (Spec, SpecHandler).                          *)
(***************************************************************************)
Contains(s, sub) ==
    \E i \in 0..(Len(s) - Len(sub)) : SubSeq(s, i + 1, i + Len(sub)) = sub

\* C7: the process action without a credential gives the MissingCredential
\* message and issues no request; the processing flag stays false and the
\* tables and the stored result are unchanged, loaded tables or not.
C7_MissingCredential ==
    [][(processWithAI /\ apiKey = "") =>
          /\ error' = MissingCredential(selectedProvider)
          /\ inflight' = inflight
          /\ isProcessing = FALSE /\ isProcessing' = FALSE
          /\ UNCHANGED <<tableVars, resultVars, processedResult>>]_vars

\* the message is shown with both tables loaded and no credential
C7_Witness ==
    /\ apiKey = ""
    /\ error = MissingCredential(selectedProvider)
    /\ Len(file1Data) > 0 /\ Len(file2Data) > 0
    /\ inflight = <<>> /\ ~isProcessing

\* C8: the process action with both files loaded and a credential present
\* issues exactly one request, whose prompt contains the serialization of
\* both tables, also for a file that normalizes to headers with zero rows.
C8_OneRequestWhenBothLoaded ==
    [][(/\ InvokeProcess
        /\ apiKey # ""
        /\ fileLoaded[1] /\ Len(headers1) > 0
        /\ fileLoaded[2] /\ Len(headers2) > 0) =>
          /\ Len(inflight') = Len(inflight) + 1
          /\ Contains(inflight'[Len(inflight')].prompt,
                      formatData(headers1, file1Data))
          /\ Contains(inflight'[Len(inflight')].prompt,
                      formatData(headers2, file2Data))]_vars

\* C9: at most one request is in flight, and the processing flag is true
\* exactly while one is; no second request is issued while the flag is true.
C9_OneRequestInFlight ==
    /\ Len(inflight) <= 1
    /\ isProcessing <=> Len(inflight) = 1

\* a request is in flight while a file read is still pending
C9_Witness == isProcessing /\ Len(inflight) = 1 /\ reading # {}

\* C10: an empty reply leaves the result table as it was, the stored result
\* null and the message empty, and sets the processing flag back to false.
C10_EmptyReplyIgnored ==
    [][(\E i \in 1..Len(inflight) : receiveText(i, <<>>)) =>
          /\ UNCHANGED <<processedHeaders, processedData>>
          /\ processedResult' = Null
          /\ error' = NoError
          /\ isProcessing' = FALSE]_vars

\* after an earlier result, a later request has ended with an empty reply:
\* the old table is still stored, with no result, no message, flag false
C10_Witness ==
    /\ ~isProcessing /\ inflight = <<>>
    /\ processedResult = Null
    /\ error = NoError
    /\ processedHeaders # <<>>

\* C11: a failed request is final: the failure's message (the fixed message
\* when what was thrown is no Error) becomes the shown message, the stored
\* result stays null, the input tables are unchanged, no request remains or is
\* sent again, and a request is issued only by the user's process action.
C11_FailureIsTerminal ==
    /\ [][\A i \in 1..Len(inflight), e \in Failures :
            receiveFailure(i, e) =>
                /\ error' = (IF e.isError THEN e.message ELSE GenericFailure)
                /\ error' # NoError
                /\ processedResult' = Null
                /\ UNCHANGED tableVars
                /\ inflight' = <<>>
                /\ isProcessing' = FALSE]_vars
    /\ [][Len(inflight') > Len(inflight) => ClickProcess]_vars

\* the failure's message is shown, with nothing in flight and no result
C11_Witness ==
    /\ error = <<"Failed to fetch">>
    /\ inflight = <<>> /\ ~isProcessing
    /\ processedResult = Null
    /\ Len(file1Data) > 0 /\ Len(file2Data) > 0

(***************************************************************************)
(* Properties of getPrompt (SpecPrompt).                                   *)
(***************************************************************************)
\* line is the cells of row joined with a comma and a space
IsJoinedRow(line, row) ==
    IF Len(row) = 0 THEN line = <<>>
    ELSE LET pieces == split(line, ",")
         IN  /\ Len(pieces) = Len(row)
             /\ pieces[1] = row[1]
             /\ \A j \in 2..Len(row) : pieces[j] = <<" ">> \o row[j]

\* block is the header line and then one line for each row, in table order
IsBlockOf(block, h, d) ==
    LET blockLines == split(block, "\n")
    IN  /\ Len(blockLines) = 1 + Len(d)
        /\ IsJoinedRow(blockLines[1], h)
        /\ \A r \in 1..Len(d) : IsJoinedRow(blockLines[r + 1], d[r])

\* C12: the prompt is the wording that ends with 'First spreadsheet:', the
\* first table's block, the wording with 'Second spreadsheet:', and the
\* second table's block; a block is the header cells joined with ', ', then
\* each row's cells joined with ', ', the lines joined by a newline.
C12_PromptSerializesBothTables ==
    pc = "promptDone" =>
        /\ Len(out) >= 2 /\ out[1] = PromptIntro[1]
        /\ \E m \in 2..Len(out) :
              /\ out[m] = PromptMiddle[1]
              /\ IsBlockOf(SubSeq(out, 2, m - 1), text[1], text[2])
              /\ IsBlockOf(SubSeq(out, m + 1, Len(out)), text[3], text[4])

\* a prompt was built from a first table with a two-cell header and a row
C12_Witness ==
    /\ pc = "promptDone"
    /\ Len(text[1]) = 2 /\ text[1][2] # <<>>
    /\ Len(text[2]) = 1 /\ Len(text[2][1]) = 2
    /\ text[3] = <<<<"x">>>>
    /\ Contains(out, <<"a", " ", "b", ",", " ", "a", " ", "b">>)

\* C13: the processing flag is false whenever no call is outstanding: every
\* end of the call (text, empty text or failure) sets it to false; and the
\* step that issues a request sets the flag and clears the message and the
\* stored result.
C13_EpisodeEnds ==
    /\ [](inflight = <<>> => ~isProcessing)
    /\ [][Len(inflight') < Len(inflight) => isProcessing' = FALSE]_vars
    /\ [][Len(inflight') > Len(inflight) =>
            /\ isProcessing' = TRUE
            /\ error' = NoError
            /\ processedResult' = Null]_vars

\* a new episode has started after an earlier one gave a result: the flag is
\* set, the stored result of the earlier episode is cleared
C13_Witness ==
    /\ isProcessing /\ Len(inflight) = 1
    /\ error = NoError
    /\ processedResult = Null
    /\ processedData # <<>>

\* C14: with a credential present the process action gives the MissingInput
\* message, and issues no request, exactly when a file was never loaded; a
\* loaded table is not treated as absent.
C14_MissingInputIffNeverLoaded ==
    [][(/\ InvokeProcess
        /\ apiKey # ""
        /\ fileLoaded[1] => Len(headers1) > 0
        /\ fileLoaded[2] => Len(headers2) > 0) =>
          ((error' = MissingInput /\ inflight' = inflight)
              <=> (~fileLoaded[1] \/ ~fileLoaded[2]))]_vars

\* C15: a file load that completes while a request is in flight replaces that
\* file's headers and rows, both from one parse of its text, and changes
\* neither the other table, nor the request in flight and its prompt, nor
\* the stored result, the result table, the message or the processing flag.
C15_LoadDuringRequest ==
    [][\A r \in reading :
          (onload(r) /\ isProcessing) =>
              /\ r.fileNumber = 1 =>
                    /\ <<headers1', file1Data'>> = processCSV(r.text)
                    /\ UNCHANGED <<headers2, file2Data>>
              /\ r.fileNumber = 2 =>
                    /\ <<headers2', file2Data'>> = processCSV(r.text)
                    /\ UNCHANGED <<headers1, file1Data>>
              /\ UNCHANGED <<inflight, processedResult, resultVars, error,
                             isProcessing>>]_vars

\* a table was replaced while the request was in flight: the prompt in flight
\* is no longer the prompt of the tables now stored
C15_Witness ==
    /\ isProcessing /\ Len(inflight) = 1
    /\ reading = {}
    /\ inflight[1].prompt # getPrompt(headers1, file1Data, headers2, file2Data)

\* the stored result is the fence-stripped text of a non-empty reply, and the
\* result table is its parse
ResultIsParsedReply ==
    processedResult # Null =>
        /\ \E reply \in Replies :
              reply # <<>> /\ processedResult = Some(stripFence(reply))
        /\ <<processedHeaders, processedData>> = processCSV(processedResult[1])

\* no result is stored while a request is in flight or a message is shown
NoStaleResult ==
    (isProcessing \/ error # NoError) => processedResult = Null

\* C16 as stated: a non-null stored result is a non-empty fence-stripped
\* reply whose parse is the result table, and it is null once a later
\* request has started, failed or returned empty text.
C16_ResultNonEmptyAsStated ==
    /\ ResultIsParsedReply
    /\ NoStaleResult
    /\ processedResult # Null => processedResult[1] # <<>>

\* C16: a non-null stored result is the fence-stripped text of a non-empty
\* reply (itself empty when the reply held only a fence), the result table is
\* its parse, and it is null once a later request has started or failed.
C16_ResultMatchesTable == ResultIsParsedReply /\ NoStaleResult

\* a fenced reply is stored without its fence, with its table
C16_Witness ==
    /\ processedResult = Some(<<"a", ",", "b", "\n", "1", ",", "2">>)
    /\ processedHeaders = <<<<"a">>, <<"b">>>>
    /\ processedData = <<<<<<"1">>, <<"2">>>>>>
    /\ ~isProcessing

ModelsOf(p) == {modelOptions[p][j] : j \in 1..Len(modelOptions[p])}

\* C17: the selected model is one of the models configured for the selected
\* provider, and every request in flight carries a model of the provider it
\* is sent to.
C17_ModelBelongsToProvider ==
    /\ selectedProvider \in Providers
    /\ selectedModel \in ModelsOf(selectedProvider)
    /\ \A i \in 1..Len(inflight) :
          inflight[i].model \in ModelsOf(inflight[i].provider)

\* a request is in flight to a provider and a model the user picked
C17_Witness ==
    /\ Len(inflight) = 1
    /\ inflight[1].provider = "openai"
    /\ inflight[1].model = "o3-mini"

====
